---- MODULE Spec2Model ----
(***************************************************************************)
(* A model of the three LUMA scrapers:                                     *)
(*   scrape_service_status.py  (status table -> outage_snapshot)           *)
(*   scrape_notable_outages.py (notable outages -> luma_outages)           *)
(*   scrape_luma_grid_status.py (system overview -> luma_scrape_results)   *)
(* Text is modelled by TLA+ strings, read character by character.  Python  *)
(* values that may be None are tagged: None, StrV(s), IntV(n).  A call that  *)
(* raises is modelled by the value Raise(kind) in place of its result.     *)
(***************************************************************************)
EXTENDS Integers, Sequences, FiniteSets, TLC

VARIABLES
    outage_snapshot,  \* status scraper: rows of the table outage_snapshot
    clock,            \* status scraper: the wall clock, one tick per pass
    snapshot_files,   \* status scraper: the luma_outages_<time>.json files
    latest_json,      \* status scraper: the content of latest.json
    status_pass,      \* status scraper: what the last pass of main did
    luma_outages,     \* notable outages: rows of the table luma_outages
    id_unique,        \* notable outages: does the table enforce unique ids
    store_calls,      \* notable outages: store calls of the last run
    outage_pass,      \* notable outages: what the last run did
    grid_doc,         \* grid scraper: the document fetched last
    grid_result       \* grid scraper: what scrape_luma returned for it

status_vars == <<outage_snapshot, clock, snapshot_files, latest_json, status_pass>>
outage_vars == <<luma_outages, id_unique, store_calls, outage_pass>>
grid_vars == <<grid_doc, grid_result>>
vars == <<status_vars, outage_vars, grid_vars>>

-----------------------------------------------------------------------------
(* Python values *)

None == [none |-> TRUE]
StrV(s) == [str |-> s]
IntV(n) == [int |-> n]
Raise(kind) == [raise |-> kind]
BoolV(b) == [bool |-> b]

IsNone(v) == "none" \in DOMAIN v
IsStr(v) == "str" \in DOMAIN v
IsInt(v) == "int" \in DOMAIN v
IsRaise(v) == "raise" \in DOMAIN v

-----------------------------------------------------------------------------
(* Text *)

Ch(s, i) == IF i >= 1 /\ i <= Len(s) THEN SubSeq(s, i, i) ELSE ""

From(s, i) == IF i > Len(s) THEN "" ELSE SubSeq(s, i, Len(s))

Digits == {"0", "1", "2", "3", "4", "5", "6", "7", "8", "9"}

DigitVal(c) ==
    CASE c = "0" -> 0 [] c = "1" -> 1 [] c = "2" -> 2 [] c = "3" -> 3
      [] c = "4" -> 4 [] c = "5" -> 5 [] c = "6" -> 6 [] c = "7" -> 7
      [] c = "8" -> 8 [] c = "9" -> 9

\* The ASCII characters Python takes as whitespace in str.strip and in the \s
\* of a strptime format: space, \t, \n, \r, \f, \v (0x0b) and the separators
\* 0x1c-0x1f; the last five stand in their strings as the characters
\* themselves.  Texts of this module are ASCII (Python also takes 0x85, 0xa0
\* and the other Unicode spaces as whitespace).
Whitespace == {" ", "\t", "\n", "\r", "\f", "", "", "", "", ""}

\* The whitespace int() accepts around the digits of an ASCII text: that of
\* C's isspace, without the separators 0x1c-0x1f
IntWhitespace == {" ", "\t", "\n", "\r", "\f", ""}

RECURSIVE int_lstrip(_)
int_lstrip(s) ==
    IF s # "" /\ Ch(s, 1) \in IntWhitespace THEN int_lstrip(From(s, 2)) ELSE s

RECURSIVE int_rstrip(_)
int_rstrip(s) ==
    IF s # "" /\ Ch(s, Len(s)) \in IntWhitespace
    THEN int_rstrip(SubSeq(s, 1, Len(s) - 1)) ELSE s

UpperCase == "ABCDEFGHIJKLMNOPQRSTUVWXYZ"
LowerCase == "abcdefghijklmnopqrstuvwxyz"

\* str.lower() on one character
LowerCh(c) ==
    IF \E i \in 1..Len(UpperCase) : Ch(UpperCase, i) = c
    THEN Ch(LowerCase, CHOOSE i \in 1..Len(UpperCase) : Ch(UpperCase, i) = c)
    ELSE c

RECURSIVE str_lower(_)
str_lower(s) ==
    IF s = "" THEN "" ELSE LowerCh(Ch(s, 1)) \o str_lower(From(s, 2))

StartsWith(s, p) == Len(p) <= Len(s) /\ SubSeq(s, 1, Len(p)) = p

\* str.replace(old, new) for a non-empty old: leftmost, non-overlapping
RECURSIVE str_replace(_, _, _)
str_replace(s, old, new) ==
    IF s = "" THEN ""
    ELSE IF StartsWith(s, old)
         THEN new \o str_replace(From(s, Len(old) + 1), old, new)
         ELSE Ch(s, 1) \o str_replace(From(s, 2), old, new)

RECURSIVE str_lstrip(_)
str_lstrip(s) ==
    IF s # "" /\ Ch(s, 1) \in Whitespace THEN str_lstrip(From(s, 2)) ELSE s

RECURSIVE str_rstrip(_)
str_rstrip(s) ==
    IF s # "" /\ Ch(s, Len(s)) \in Whitespace
    THEN str_rstrip(SubSeq(s, 1, Len(s) - 1)) ELSE s

\* str.strip()
str_strip(s) == str_rstrip(str_lstrip(s))

\* the value of a run of digits in which single underscores may separate digits;
\* -1 when s is not such a run
RECURSIVE DigitRun(_, _, _)
DigitRun(s, acc, prevDigit) ==
    IF s = "" THEN (IF prevDigit THEN acc ELSE -1)
    ELSE IF Ch(s, 1) \in Digits
         THEN DigitRun(From(s, 2), acc * 10 + DigitVal(Ch(s, 1)), TRUE)
         ELSE IF Ch(s, 1) = "_" /\ prevDigit
              THEN DigitRun(From(s, 2), acc, FALSE)
              ELSE -1

\* int(text): surrounding whitespace and one sign are accepted, anything else
\* that is not a run of digits raises ValueError
int(s) ==
    LET t == int_lstrip(int_rstrip(s))
        signed == Ch(t, 1) \in {"+", "-"}
        body == IF signed THEN From(t, 2) ELSE t
        n == DigitRun(body, 0, FALSE)
    IN  IF n = -1 THEN Raise("ValueError")
        ELSE IF Ch(t, 1) = "-" THEN IntV(0 - n) ELSE IntV(n)

-----------------------------------------------------------------------------
(* datetime.strptime(text, "%m/%d/%Y %I:%M %p") *)

Match(v, next) == [v |-> v, next |-> next]
NoMatch == [v |-> -1, next |-> 0]
Matched(m) == m.next # 0

\* %m and %I: 1[0-2]|0[1-9]|[1-9]
re_1to12(s, i) ==
    IF Ch(s, i) = "1" /\ Ch(s, i + 1) \in {"0", "1", "2"}
    THEN Match(10 + DigitVal(Ch(s, i + 1)), i + 2)
    ELSE IF Ch(s, i) = "0" /\ Ch(s, i + 1) \in Digits \ {"0"}
         THEN Match(DigitVal(Ch(s, i + 1)), i + 2)
         ELSE IF Ch(s, i) \in Digits \ {"0"}
              THEN Match(DigitVal(Ch(s, i)), i + 1)
              ELSE NoMatch

\* %d: 3[01]|[12]\d|0[1-9]|[1-9]| [1-9]
re_d(s, i) ==
    IF Ch(s, i) = "3" /\ Ch(s, i + 1) \in {"0", "1"}
    THEN Match(30 + DigitVal(Ch(s, i + 1)), i + 2)
    ELSE IF Ch(s, i) \in {"1", "2"} /\ Ch(s, i + 1) \in Digits
         THEN Match(10 * DigitVal(Ch(s, i)) + DigitVal(Ch(s, i + 1)), i + 2)
         ELSE IF Ch(s, i) = "0" /\ Ch(s, i + 1) \in Digits \ {"0"}
              THEN Match(DigitVal(Ch(s, i + 1)), i + 2)
              ELSE IF Ch(s, i) \in Digits \ {"0"}
                   THEN Match(DigitVal(Ch(s, i)), i + 1)
                   ELSE IF Ch(s, i) = " " /\ Ch(s, i + 1) \in Digits \ {"0"}
                        THEN Match(DigitVal(Ch(s, i + 1)), i + 2)
                        ELSE NoMatch

\* %Y: \d\d\d\d
re_Y(s, i) ==
    IF \A k \in 0..3 : Ch(s, i + k) \in Digits
    THEN Match(1000 * DigitVal(Ch(s, i)) + 100 * DigitVal(Ch(s, i + 1))
                 + 10 * DigitVal(Ch(s, i + 2)) + DigitVal(Ch(s, i + 3)), i + 4)
    ELSE NoMatch

\* %M: [0-5]\d|\d
re_M(s, i) ==
    IF Ch(s, i) \in {"0", "1", "2", "3", "4", "5"} /\ Ch(s, i + 1) \in Digits
    THEN Match(10 * DigitVal(Ch(s, i)) + DigitVal(Ch(s, i + 1)), i + 2)
    ELSE IF Ch(s, i) \in Digits THEN Match(DigitVal(Ch(s, i)), i + 1)
         ELSE NoMatch

\* %p: am|pm, case-insensitive; 0 for am, 1 for pm
re_p(s, i) ==
    IF LowerCh(Ch(s, i)) \in {"a", "p"} /\ LowerCh(Ch(s, i + 1)) = "m"
    THEN Match(IF LowerCh(Ch(s, i)) = "p" THEN 1 ELSE 0, i + 2)
    ELSE NoMatch

\* a space of the format: \s+
RECURSIVE SkipSpace(_, _)
SkipSpace(s, i) == IF Ch(s, i) \in Whitespace THEN SkipSpace(s, i + 1) ELSE i

re_space(s, i) ==
    IF Ch(s, i) \in Whitespace THEN Match(0, SkipSpace(s, i)) ELSE NoMatch

re_lit(s, i, c) == IF Ch(s, i) = c THEN Match(0, i + 1) ELSE NoMatch

IsLeap(y) == y % 4 = 0 /\ (y % 100 # 0 \/ y % 400 = 0)

DaysInMonth(y, mo) ==
    IF mo = 2 THEN (IF IsLeap(y) THEN 29 ELSE 28)
    ELSE IF mo \in {4, 6, 9, 11} THEN 30 ELSE 31

DateTime(y, mo, d, h, mi) == [y |-> y, mo |-> mo, d |-> d, h |-> h, mi |-> mi]

\* The state of a match: the position to read next (0 once the text has
\* failed to match) and the values of the directives matched so far.
MatchStart == [next |-> 1, v |-> <<>>]
MatchFailed == [next |-> 0, v |-> <<>>]
Then(st, m) ==
    IF st.next = 0 \/ ~Matched(m) THEN MatchFailed
    ELSE [next |-> m.next, v |-> Append(st.v, m.v)]

Then_1to12(s, st) == Then(st, re_1to12(s, st.next))
Then_d(s, st) == Then(st, re_d(s, st.next))
Then_Y(s, st) == Then(st, re_Y(s, st.next))
Then_M(s, st) == Then(st, re_M(s, st.next))
Then_p(s, st) == Then(st, re_p(s, st.next))
Then_space(s, st) == Then(st, re_space(s, st.next))
Then_lit(s, c, st) == Then(st, re_lit(s, st.next, c))

\* the regular expression of "%m/%d/%Y %I:%M %p"; the values matched are
\* <<m, 0, d, 0, Y, 0, I, 0, M, 0, p>>
Match_mdYIMp(s) ==
    Then_p(s, Then_space(s, Then_M(s, Then_lit(s, ":", Then_1to12(s,
        Then_space(s, Then_Y(s, Then_lit(s, "/", Then_d(s, Then_lit(s, "/",
            Then_1to12(s, MatchStart)))))))))))

\* %I with %p: 12 AM is hour 0, 12 PM is hour 12
Hour24(hour12, pm) ==
    IF pm = 0 THEN (IF hour12 = 12 THEN 0 ELSE hour12)
    ELSE (IF hour12 = 12 THEN 12 ELSE hour12 + 12)

strptime_12h(text) ==
    IF ~IsStr(text) THEN Raise("TypeError")
    ELSE
    LET st == Match_mdYIMp(text.str) IN
    IF st.next = 0 THEN Raise("ValueError")                       \* does not match format
    ELSE IF st.next # Len(text.str) + 1 THEN Raise("ValueError")  \* unconverted data
    ELSE IF st.v[5] < 1 \/ st.v[3] > DaysInMonth(st.v[5], st.v[1])
         THEN Raise("ValueError")                                 \* no such date
    ELSE DateTime(st.v[5], st.v[1], st.v[3], Hour24(st.v[7], st.v[11]), st.v[9])

\* a > b on datetimes
datetime_gt(a, b) ==
    \/ a.y > b.y
    \/ a.y = b.y /\ a.mo > b.mo
    \/ a.y = b.y /\ a.mo = b.mo /\ a.d > b.d
    \/ a.y = b.y /\ a.mo = b.mo /\ a.d = b.d /\ a.h > b.h
    \/ a.y = b.y /\ a.mo = b.mo /\ a.d = b.d /\ a.h = b.h /\ a.mi > b.mi

-----------------------------------------------------------------------------
(* scrape_service_status.py *)

MaxStatusPasses == 2  \* passes of main in one behaviour

\* Recency markers as the page script returns them ("Last update:" text cut
\* after the first AM or PM), and as older writers may have left them stored.
Marker1PM == "01/01/2024 01:00 PM"
Marker1PMShort == "1/1/2024 1:00 pm"       \* the same minute as Marker1PM
Marker2PM == "01/01/2024 02:00 PM"
MarkerNoon == "01/01/2024 12:30 PM"        \* 12:30, before Marker1PM
MarkerFeb30 == "02/30/2024 01:00 PM"       \* matches the format, no such day
MarkerGarbage == "garbage"

ParsingMarkers == {StrV(Marker1PM), StrV(Marker1PMShort), StrV(Marker2PM),
                   StrV(MarkerNoon)}
Markers == ParsingMarkers \cup {StrV(MarkerFeb30), StrV(MarkerGarbage), None}

\* a dict: a function from keys to values; d[k] = v as in Python
DictSet(d, k, v) == [x \in DOMAIN d \cup {k} |-> IF x = k THEN v ELSE d[x]]

RegionRow(region, total, out, planned) ==
    [x \in {"Region", "Total customers", "Out of Service", "Planned Upgrades"} |->
        CASE x = "Region" -> region
          [] x = "Total customers" -> total
          [] x = "Out of Service" -> out
          [] x = "Planned Upgrades" -> planned]

\* the "data" lists the page script may return: region rows of cell texts
RegionTables ==
    { <<RegionRow("San Juan", "1,234", "987", "0")>>,
      <<RegionRow("San Juan", "1,234", "987", "0"),
        RegionRow("Arecibo", "2,000", "", "1,234 MW")>> }

\* what scrape_luma_outages returns at time now: null when the container is
\* missing, else {data, timestamp, last_update}
ScrapedData(now) ==
    {None} \cup
    { [data |-> t, timestamp |-> now, last_update |-> m] :
        t \in RegionTables, m \in Markers }

\* .order("timestamp", desc=True).limit(1): the row inserted last
LatestRowOldest(table) == CHOOSE r \in table : \A q \in table : q.timestamp >= r.timestamp

LatestRow(table) == CHOOSE r \in table : \A q \in table : q.timestamp <= r.timestamp

\* new_time > latest_time
IsLaterOrEqual(new_time, latest_time) == ~datetime_gt(latest_time, new_time)

IsLater(new_time, latest_time) == datetime_gt(new_time, latest_time)

\* is_newer_last_update: BoolV(TRUE), BoolV(FALSE), or Raise(...) when the call raises.
\* select_fails: the store rejects the query.
is_newer_last_update(scraped_last_update, table, select_fails) ==
    LET new_time == strptime_12h(scraped_last_update) IN
    IF IsRaise(new_time) THEN new_time
    ELSE IF select_fails THEN Raise("StoreFailure")
    ELSE IF table # {}
         THEN LET latest == LatestRow(table).last_update
                  latest_time == strptime_12h(latest)
              IN  IF IsRaise(latest_time) THEN BoolV(TRUE)
                  ELSE BoolV(IsLater(new_time, latest_time))
         ELSE BoolV(TRUE)

\* the loop of save_data_to_supabase over data["data"][i..]: the row with the
\* three columns of each region added, or Raise(ValueError) at the first cell
\* int() rejects
RECURSIVE FlattenRegions(_, _, _)
FlattenRegions(regions, i, row) ==
    IF i > Len(regions) THEN row
    ELSE
    LET region == regions[i]
        key_suffix == str_replace(str_lower(region["Region"]), " ", "_")
        total == int(str_replace(region["Total customers"], ",", ""))
        out == int(str_replace(region["Out of Service"], ",", ""))
        planned == int(str_replace(region["Planned Upgrades"], ",", ""))
    IN  IF IsRaise(total) THEN total
        ELSE IF IsRaise(out) THEN out
        ELSE IF IsRaise(planned) THEN planned
        ELSE FlattenRegions(regions, i + 1,
                DictSet(DictSet(DictSet(row,
                    "total_customers_" \o key_suffix, total.int),
                    "out_of_service_" \o key_suffix, out.int),
                    "planned_upgrades_" \o key_suffix, planned.int))

\* save_data_to_supabase: the table after the call, or Raise(...)
save_data_to_supabase(data, table, insert_fails) ==
    LET row0 == [x \in {"timestamp", "last_update"} |->
                    IF x = "timestamp" THEN data.timestamp ELSE data.last_update]
        row == FlattenRegions(data.data, 1, row0)
    IN  IF IsRaise(row) THEN row
        ELSE IF insert_fails THEN Raise("StoreFailure")
        ELSE [table |-> table \cup {row}]

NoPass == [n |-> 0, data |-> None, fault |-> "none", differ |-> "not called",
           saved |-> FALSE, raised |-> FALSE, latest_written |-> FALSE]

\* One pass of main.  data is what scrape_luma_outages returned, fault the
\* call of this pass that fails for a reason outside the program (it is
\* recorded in status_pass when the pass gets to that call).
StatusMain(data, fault) ==
    LET pass == [NoPass EXCEPT !.n = status_pass.n + 1, !.data = data] IN
    /\ status_pass.n < MaxStatusPasses
    /\ clock' = clock + 1
    /\ IF fault = "scrape"
       THEN \* scrape_luma_outages raised: main re-raises
            /\ status_pass' = [pass EXCEPT !.data = None, !.fault = "scrape",
                                           !.raised = TRUE]
            /\ UNCHANGED <<outage_snapshot, snapshot_files, latest_json>>
       ELSE IF IsNone(data)
       THEN \* "No data found"
            /\ status_pass' = pass
            /\ UNCHANGED <<outage_snapshot, snapshot_files, latest_json>>
       ELSE
         /\ snapshot_files' = snapshot_files \cup {data}
         /\ \E newer \in {is_newer_last_update(data.last_update, outage_snapshot,
                                                fault = "select")} :
            IF IsRaise(newer)
            THEN \* is_newer_last_update raised: main re-raises
                 /\ status_pass' =
                       [pass EXCEPT !.differ = "raised", !.raised = TRUE,
                                    !.fault = IF newer = Raise("StoreFailure")
                                              THEN "select" ELSE "none"]
                 /\ UNCHANGED <<outage_snapshot, latest_json>>
            ELSE IF ~newer.bool
            THEN /\ status_pass' = [pass EXCEPT !.differ = "not newer",
                                                !.latest_written = TRUE]
                 /\ latest_json' = data
                 /\ UNCHANGED outage_snapshot
            ELSE \E saved \in {save_data_to_supabase(data, outage_snapshot,
                                                     fault = "insert")} :
                 IF IsRaise(saved)
                 THEN \* save_data_to_supabase raised: main re-raises
                      /\ status_pass' =
                            [pass EXCEPT !.differ = "newer", !.raised = TRUE,
                                         !.fault = IF saved = Raise("StoreFailure")
                                                   THEN "insert" ELSE "none"]
                      /\ UNCHANGED <<outage_snapshot, latest_json>>
                 ELSE /\ status_pass' = [pass EXCEPT !.differ = "newer",
                                                     !.saved = TRUE,
                                                     !.latest_written = TRUE]
                      /\ outage_snapshot' = saved.table
                      /\ latest_json' = data
    /\ UNCHANGED <<outage_vars, grid_vars>>

StatusPass ==
    \E data \in ScrapedData(clock), fault \in {"none", "select", "insert"} :
        StatusMain(data, fault)

\* a pass whose scrape raises (navigation failure, selector timeout)
StatusPassScrapeFails == StatusMain(None, "scrape")

StatusNext == StatusPass \/ StatusPassScrapeFails

StoredRow(timestamp, last_update) ==
    [x \in {"timestamp", "last_update"} |->
        IF x = "timestamp" THEN timestamp ELSE last_update]

\* the tables a first pass may find: empty, or rows left by earlier writers
InitTables ==
    { {},
      {StoredRow(1, StrV(Marker1PM))},
      {StoredRow(1, StrV(MarkerGarbage))},
      {StoredRow(1, None)},
      {StoredRow(1, StrV(MarkerNoon)), StoredRow(2, StrV(Marker1PM))},
      {StoredRow(1, StrV(Marker2PM)), StoredRow(2, StrV(Marker1PM))},
      {StoredRow(1, StrV(Marker2PM)), StoredRow(2, StrV(MarkerFeb30))},
      {StoredRow(1, StrV(MarkerGarbage)), StoredRow(2, StrV(MarkerNoon))} }

MaxTimestamp(table) ==
    IF table = {} THEN 0
    ELSE (CHOOSE r \in table : \A q \in table : q.timestamp <= r.timestamp).timestamp

StatusInit ==
    /\ outage_snapshot \in InitTables
    /\ clock = MaxTimestamp(outage_snapshot) + 1
    /\ snapshot_files = {}
    /\ latest_json = None
    /\ status_pass = NoPass

-----------------------------------------------------------------------------
(* scrape_notable_outages.py *)

MaxOutageRuns == 2  \* runs (of main or of the upsert) in one behaviour

MonthNames == <<"january", "february", "march", "april", "may", "june", "july",
                "august", "september", "october", "november", "december">>

\* %B: a full month name, case-insensitive
re_B(s, i) ==
    LET rest == str_lower(From(s, i))
        hit == {k \in 1..12 : StartsWith(rest, MonthNames[k])}
    IN  IF hit = {} THEN NoMatch
        ELSE LET k == CHOOSE k \in hit : TRUE IN Match(k, i + Len(MonthNames[k]))

\* %H: 2[0-3]|[0-1]\d|\d
re_H(s, i) ==
    IF Ch(s, i) = "2" /\ Ch(s, i + 1) \in {"0", "1", "2", "3"}
    THEN Match(20 + DigitVal(Ch(s, i + 1)), i + 2)
    ELSE IF Ch(s, i) \in {"0", "1"} /\ Ch(s, i + 1) \in Digits
         THEN Match(10 * DigitVal(Ch(s, i)) + DigitVal(Ch(s, i + 1)), i + 2)
         ELSE IF Ch(s, i) \in Digits THEN Match(DigitVal(Ch(s, i)), i + 1)
              ELSE NoMatch

DefaultYear == 1900  \* the year strptime gives a date that names none

Then_B(s, st) == Then(st, re_B(s, st.next))
Then_H(s, st) == Then(st, re_H(s, st.next))

\* the regular expression of '%B %d %H:%M\''; the values matched are
\* <<B, 0, d, 0, H, 0, M, 0>>
Match_BdHM(s) ==
    Then_lit(s, "'", Then_M(s, Then_lit(s, ":", Then_H(s, Then_space(s,
        Then_d(s, Then_space(s, Then_B(s, MatchStart))))))))

\* datetime.strptime(s, '%B %d %H:%M\'')
strptime_Bd(s) ==
    LET st == Match_BdHM(s) IN
    IF st.next = 0 THEN Raise("ValueError")
    ELSE IF st.next # Len(s) + 1 THEN Raise("ValueError")
    ELSE IF st.v[3] > DaysInMonth(DefaultYear, st.v[1]) THEN Raise("ValueError")
    ELSE DateTime(DefaultYear, st.v[1], st.v[3], st.v[5], st.v[7])

DigitChars == "0123456789"
Dec1(n) == Ch(DigitChars, n + 1)
Dec2(n) == Dec1((n \div 10) % 10) \o Dec1(n % 10)
Dec4(n) == Dec2(n \div 100) \o Dec2(n % 100)

\* datetime.isoformat() of a datetime with whole minutes
isoformat(t) ==
    Dec4(t.y) \o "-" \o Dec2(t.mo) \o "-" \o Dec2(t.d) \o "T"
        \o Dec2(t.h) \o ":" \o Dec2(t.mi) \o ":00"

\* The clock of a run: datetime.now() is read anew at every use, and may have
\* advanced since the read before.  A clock is the time of its first read and
\* the minutes it advances from one read to the next.
Clock(start, tick) == [start |-> start, tick |-> tick]

\* the minute after t
NextMinute(t) ==
    IF t.mi < 59 THEN [t EXCEPT !.mi = t.mi + 1]
    ELSE IF t.h < 23 THEN [t EXCEPT !.mi = 0, !.h = t.h + 1]
    ELSE IF t.d < DaysInMonth(t.y, t.mo)
         THEN [t EXCEPT !.mi = 0, !.h = 0, !.d = t.d + 1]
    ELSE IF t.mo < 12 THEN [t EXCEPT !.mi = 0, !.h = 0, !.d = 1, !.mo = t.mo + 1]
    ELSE [t EXCEPT !.mi = 0, !.h = 0, !.d = 1, !.mo = 1, !.y = t.y + 1]

RECURSIVE PlusMinutes(_, _)
PlusMinutes(t, m) == IF m = 0 THEN t ELSE PlusMinutes(NextMinute(t), m - 1)

\* datetime.now() when `reads` reads of the clock have been made before
datetime_now(clk, reads) == PlusMinutes(clk.start, clk.tick * reads)

\* try: strptime(...).replace(year=datetime.now().year)
\* except ValueError: None, then x.isoformat() if x else None.
\* The clock is read only when the text has parsed; reads counts the reads
\* made so far.
ParsedTimestamp(text, clk, reads) ==
    LET t == strptime_Bd(text) IN
    IF IsRaise(t) THEN [v |-> None, reads |-> reads]
    ELSE [v |-> StrV(isoformat([t EXCEPT !.y = datetime_now(clk, reads).y])),
          reads |-> reads + 1]

\* the characters 0x20..0x5f and 0x61..0x7e in the order of their codes
AsciiLow == " !\"#$%&'()*+,-./0123456789:;<=>?@ABCDEFGHIJKLMNOPQRSTUVWXYZ[\\]^_"
AsciiHigh == "abcdefghijklmnopqrstuvwxyz{|}~"

\* ord(c) of an ASCII character that a string of this module can hold
ord(c) ==
    CASE c = "\t" -> 9 [] c = "\n" -> 10 [] c = "" -> 11 [] c = "\f" -> 12
      [] c = "\r" -> 13 [] c = "" -> 28 [] c = "" -> 29
      [] c = "" -> 30 [] c = "" -> 31
      [] \E i \in 1..Len(AsciiLow) : Ch(AsciiLow, i) = c ->
            31 + (CHOOSE i \in 1..Len(AsciiLow) : Ch(AsciiLow, i) = c)
      [] OTHER -> 96 + (CHOOSE i \in 1..Len(AsciiHigh) : Ch(AsciiHigh, i) = c)

\* text.encode(): the UTF-8 bytes of an ASCII text are the codes of its
\* characters
str_encode(text) == [i \in 1..Len(text) |-> ord(Ch(text, i))]

\* A 32-bit word is kept as its two 16-bit halves
Word(hi, lo) == <<hi, lo>>

Pow2 == <<1, 2, 4, 8, 16, 32, 64, 128, 256, 512, 1024, 2048, 4096, 8192, 16384,
          32768, 65536>>

md5_add(a, b) ==
    Word((a[1] + b[1] + ((a[2] + b[2]) \div 65536)) % 65536, (a[2] + b[2]) % 65536)

\* x rotated left by s bits, 0 < s < 32
md5_rotl(x, s) ==
    LET y == IF s >= 16 THEN Word(x[2], x[1]) ELSE x
        r == s % 16
        m == Pow2[16 - r + 1]
    IN  Word((y[1] % m) * Pow2[r + 1] + (y[2] \div m),
             (y[2] % m) * Pow2[r + 1] + (y[1] \div m))

\* one bit of the round functions F, G, H, I of MD5
md5_bit(q, b, c, d) ==
    CASE q = 0 -> IF b = 1 THEN c ELSE d
      [] q = 1 -> IF d = 1 THEN b ELSE c
      [] q = 2 -> (b + c + d) % 2
      [] q = 3 -> (c + (IF b = 1 \/ d = 0 THEN 1 ELSE 0)) % 2

RECURSIVE md5_half(_, _, _, _, _)
md5_half(q, b, c, d, n) ==
    IF n = 0 THEN 0
    ELSE md5_bit(q, b % 2, c % 2, d % 2)
            + 2 * md5_half(q, b \div 2, c \div 2, d \div 2, n - 1)

md5_func(q, b, c, d) ==
    Word(md5_half(q, b[1], c[1], d[1], 16), md5_half(q, b[2], c[2], d[2], 16))

\* floor(2^32 * abs(sin(i + 1))), i = 0..63
md5_K ==
    <<
       <<55146, 42104>>, <<59591, 46934>>, <<9248, 28891>>, <<49597, 52974>>,
       <<62844, 4015>>, <<18311, 50730>>, <<43056, 17939>>, <<64838, 38145>>,
       <<27008, 39128>>, <<35652, 63407>>, <<65535, 23473>>, <<35164, 55230>>,
       <<27536, 4386>>, <<64920, 29075>>, <<42617, 17294>>, <<18868, 2081>>,
       <<63006, 9570>>, <<49216, 45888>>, <<9822, 23121>>, <<59830, 51114>>,
       <<54831, 4189>>, <<580, 5203>>, <<55457, 59009>>, <<59347, 64456>>,
       <<8673, 52710>>, <<49975, 2006>>, <<62677, 3463>>, <<17754, 5357>>,
       <<43491, 59653>>, <<64751, 41976>>, <<26479, 729>>, <<36138, 19594>>,
       <<65530, 14658>>, <<34673, 63105>>, <<28061, 24866>>, <<64997, 14348>>,
       <<42174, 59972>>, <<19422, 53161>>, <<63163, 19296>>, <<48831, 48240>>,
       <<10395, 32454>>, <<60065, 10234>>, <<54511, 12421>>, <<1160, 7429>>,
       <<55764, 53305>>, <<59099, 39397>>, <<8098, 31992>>, <<50348, 22117>>,
       <<62505, 8772>>, <<17194, 65431>>, <<43924, 9127>>, <<64659, 41017>>,
       <<25947, 22979>>, <<36620, 52370>>, <<65519, 62589>>, <<34180, 24017>>,
       <<28584, 32335>>, <<65068, 59104>>, <<41729, 17172>>, <<19976, 4513>>,
       <<63315, 32386>>, <<48442, 62005>>, <<10967, 53947>>, <<60294, 54161>> >>

md5_S ==
    <<
       7, 12, 17, 22, 7, 12, 17, 22, 7, 12, 17, 22, 7, 12, 17, 22,
       5, 9, 14, 20, 5, 9, 14, 20, 5, 9, 14, 20, 5, 9, 14, 20,
       4, 11, 16, 23, 4, 11, 16, 23, 4, 11, 16, 23, 4, 11, 16, 23,
       6, 10, 15, 21, 6, 10, 15, 21, 6, 10, 15, 21, 6, 10, 15, 21 >>

\* the index of the message word of round i
md5_g(i) ==
    CASE i < 16 -> i
      [] i < 32 -> (5 * i + 1) % 16
      [] i < 48 -> (3 * i + 5) % 16
      [] OTHER -> (7 * i) % 16

\* round i on the state <<A, B, C, D>> with the message words M
md5_round(st, M, i) ==
    LET f == md5_func(i \div 16, st[2], st[3], st[4])
        sum == md5_add(md5_add(f, st[1]), md5_add(md5_K[i + 1], M[md5_g(i) + 1]))
    IN  <<st[4], md5_add(st[2], md5_rotl(sum, md5_S[i + 1])), st[2], st[3]>>

\* rounds lo..hi-1 in turn, the state of each handed to the next
RECURSIVE md5_rounds(_, _, _, _)
md5_rounds(st, M, lo, hi) ==
    IF hi = lo + 1 THEN md5_round(st, M, lo)
    ELSE CHOOSE r \in { md5_rounds(x, M, (lo + hi) \div 2, hi) :
                          x \in {md5_rounds(st, M, lo, (lo + hi) \div 2)} } : TRUE

\* the 16 little-endian words of block k (from 0) of the padded bytes
md5_words(bytes, k) ==
    [j \in 1..16 |->
        LET o == 64 * k + 4 * (j - 1)
        IN  Word(bytes[o + 4] * 256 + bytes[o + 3], bytes[o + 2] * 256 + bytes[o + 1])]

RECURSIVE md5_blocks(_, _, _)
md5_blocks(st, bytes, k) ==
    IF 64 * k >= Len(bytes) THEN st
    ELSE CHOOSE r \in
           { md5_blocks(<<md5_add(st[1], x[1]), md5_add(st[2], x[2]),
                          md5_add(st[3], x[3]), md5_add(st[4], x[4])>>, bytes, k + 1) :
               x \in {md5_rounds(st, md5_words(bytes, k), 0, 64)} } : TRUE

\* the message, 0x80, zeros up to 56 mod 64, the length in bits in 8 bytes
md5_pad(bytes) ==
    LET n == Len(bytes)
        zeros == (55 - n) % 64
        bits == 8 * n
    IN  bytes \o <<128>> \o [i \in 1..zeros |-> 0]
            \o <<bits % 256, (bits \div 256) % 256, (bits \div 65536) % 256, 0,
                 0, 0, 0, 0>>

md5_init == <<Word(26437, 8961), Word(61389, 43913), Word(39098, 56574),
              Word(4146, 21622)>>

HexDigits == "0123456789abcdef"
hex2(b) == Ch(HexDigits, (b \div 16) + 1) \o Ch(HexDigits, (b % 16) + 1)
hex_le(w) ==
    hex2(w[2] % 256) \o hex2(w[2] \div 256) \o hex2(w[1] % 256) \o hex2(w[1] \div 256)

\* hashlib.md5(text.encode()).hexdigest(): MD5 (RFC 1321) of the bytes, as 32
\* lower-case hex digits
md5_hexdigest(text) ==
    CHOOSE r \in { hex_le(st[1]) \o hex_le(st[2]) \o hex_le(st[3]) \o hex_le(st[4]) :
                   st \in {md5_blocks(md5_init, md5_pad(str_encode(text)), 0)} } : TRUE

\* the string the id is the digest of, with the sector left out
IdTextNoSector(municipality, sector, outage_reported) ==
    municipality \o "_" \o outage_reported

\* the string the id is the digest of

IdText(municipality, sector, outage_reported) ==
    municipality \o "_" \o sector \o "_" \o outage_reported

\* the body of the loop of scrape_luma_outages for a row of 7 or more cells:
\* the entry, and the reads of the clock made once it is built
OutageEntry(cells, clk, reads) ==
    LET municipality == str_strip(cells[1])
        sector == str_strip(cells[2])
        outage_reported == str_strip(cells[3])
        est_restoration == str_strip(cells[4])
        customers_impacted == str_strip(cells[5])
        category == str_strip(cells[6])
        current_status == str_strip(cells[7])
        unique_id == md5_hexdigest(IdText(municipality, sector, outage_reported))
        outage_time == ParsedTimestamp(outage_reported, clk, reads)
        restoration_time == ParsedTimestamp(est_restoration, clk, outage_time.reads)
    IN  [entry |->
           [id |-> unique_id,
            municipality |-> municipality,
            sector |-> sector,
            outage_reported_text |-> outage_reported,
            outage_reported_timestamp |-> outage_time.v,
            restoration_estimated_text |-> est_restoration,
            restoration_estimated_timestamp |-> restoration_time.v,
            customers_impacted |-> customers_impacted,
            category |-> category,
            current_status |-> current_status,
            scraped_at |-> isoformat(datetime_now(clk, restoration_time.reads))],
         reads |-> restoration_time.reads + 1]

RECURSIVE ExtractRows(_, _, _, _)
ExtractRows(rows, i, clk, reads) ==
    IF i > Len(rows) THEN <<>>
    ELSE IF Len(rows[i]) >= 7
         THEN LET e == OutageEntry(rows[i], clk, reads)
              IN  <<e.entry>> \o ExtractRows(rows, i + 1, clk, e.reads)
         ELSE ExtractRows(rows, i + 1, clk, reads)

\* scrape_luma_outages: page is the rows of cell texts the driver finds, or
\* Raise(...) when the driver or the wait fails (then the result is [])
scrape_luma_outages(page, clk) ==
    IF IsRaise(page) THEN <<>> ELSE ExtractRows(page.rows, 1, clk, 0)

\* Rows of the notable-outages table, as lists of cell texts
RowA1 == <<"Ponce", "Centro", "March 5 14:30'", "March 5 18:00'", "1,200",
           "Unplanned", "Crew assigned">>
\* the outage of RowA1 seen again: new estimate and status, padded cells
RowA2 == <<" Ponce\r\n", "Centro", "March 5 14:30'", "TBD", "1,150",
           "Unplanned", "Restored">>
RowB == <<"Bayamon", "Centro", "February 29 08:05'", "March 1 9:00'", "300",
          "Planned", "In progress">>
\* RowA1 with another sector, another reported time, another municipality
RowC == <<"Ponce", "Playa", "March 5 14:30'", "March 5 18:00'", "1,200",
          "Unplanned", "Crew assigned">>
RowD == <<"Ponce", "Centro", "March 6 14:30'", "March 5 18:00'", "1,200",
          "Unplanned", "Crew assigned">>
RowE == <<"Mayaguez", "Centro", "March 5 14:30'", "March 5 18:00'", "1,200",
          "Unplanned", "Crew assigned">>
RowShort == <<"No data available in table">>
\* two texts that differ in one character and have one MD5 digest
CollidingText1 ==
    "TEXTCOLLBYfGiJUETHQ4hAcKSMd5zYpgqf1YRDhkmxHkhPWptrkoyz28wnI9V0aHeAuaKnak"
CollidingText2 ==
    "TEXTCOLLBYfGiJUETHQ4hEcKSMd5zYpgqf1YRDhkmxHkhPWptrkoyz28wnI9V0aHeAuaKnak"
\* rows that differ in the municipality alone, by those two texts
RowF1 == <<CollidingText1, "Centro", "March 5 14:30'", "TBD", "10", "Unplanned",
           "Reported">>
RowF2 == <<CollidingText2, "Centro", "March 5 14:30'", "TBD", "10", "Unplanned",
           "Reported">>

Page(rows) == [rows |-> rows]

\* what the driver may find
Pages ==
    { Raise("TimeoutException"),
      Page(<<RowShort>>),
      Page(<<RowA1, RowB>>),
      Page(<<RowA2, RowC>>),
      Page(<<RowA1, RowA2>>),
      Page(<<RowD, RowShort, RowE>>),
      Page(<<RowF1, RowF2>>) }

\* datetime.now() at the first read of the k-th run: the runs are ten minutes
\* apart, the last of them two minutes before the new year
OutageNow(k) == DateTime(2025, 12, 31, 23, 58 - 10 * (MaxOutageRuns - k))

\* the clocks of the k-th run: standing still during the run, or a minute
\* further at every read
OutageClocks(k) == { Clock(OutageNow(k), tick) : tick \in {0, 1} }

\* a store call of one run that the store rejects for a reason outside the
\* program; k numbers the updates of the run
Fault(call, k) == [call |-> call, k |-> k]
NoFault == Fault("none", 0)
StoreFaults ==
    {NoFault, Fault("select", 0), Fault("insert", 0), Fault("update", 1),
     Fault("update", 2)}

Call(op, rows, key, ok) == [op |-> op, rows |-> rows, key |-> key, ok |-> ok]

RowIds(rows) == {rows[i].id : i \in 1..Len(rows)}

HasDuplicateIds(rows) ==
    \E i, j \in 1..Len(rows) : i # j /\ rows[i].id = rows[j].id

\* .update(outage).eq("id", id): every row with that id takes the outage's columns
UpdateWhereIdAny(table, outage) == [i \in 1..Len(table) |-> outage]

UpdateWhereId(table, outage) ==
    [i \in 1..Len(table) |->
        IF table[i].id = outage.id THEN outage ELSE table[i]]

Outcome(table, calls, error) == [table |-> table, calls |-> calls, error |-> error]

\* the update loop from its k-th item on; a rejected update raises and ends the loop
RECURSIVE UpdateLoop(_, _, _, _, _)
UpdateLoop(update_outages, k, table, calls, fault) ==
    IF k > Len(update_outages) THEN Outcome(table, calls, FALSE)
    ELSE
    LET outage == update_outages[k] IN
    IF fault = Fault("update", k)
    THEN Outcome(table, Append(calls, Call("update", <<outage>>, outage.id, FALSE)), TRUE)
    ELSE UpdateLoop(update_outages, k + 1, UpdateWhereId(table, outage),
                    Append(calls, Call("update", <<outage>>, outage.id, TRUE)), fault)

\* the store's answer to .insert(rows): with unique ids enforced, a batch that
\* repeats an id or names a stored id is rejected whole
InsertRejected(table, rows, unique) ==
    unique /\ (HasDuplicateIds(rows) \/ RowIds(rows) \cap RowIds(table) # {})

NewOutages(outages, existing_ids) ==
    LET IsNew(o) == o.id \notin existing_ids IN SelectSeq(outages, IsNew)

UpdateOutages(outages, existing_ids) ==
    LET IsKnown(o) == o.id \in existing_ids IN SelectSeq(outages, IsKnown)

\* store_outages_in_supabase: the table after the call, the store calls made,
\* and whether an exception was caught and printed.  unique: the table rejects
\* an insert that would give two rows one id.
store_outages_in_supabase(outages, table, unique, fault) ==
    IF outages = <<>> THEN Outcome(table, <<>>, FALSE)
    ELSE IF fault = Fault("select", 0)
    THEN Outcome(table, <<Call("select", <<>>, "", FALSE)>>, TRUE)
    ELSE
    LET existing_ids == RowIds(table)
        new_outages == NewOutages(outages, existing_ids)
        update_outages == UpdateOutages(outages, existing_ids)
        selected == <<Call("select", <<>>, "", TRUE)>>
        rejected == \/ fault = Fault("insert", 0)
                    \/ InsertRejected(table, new_outages, unique)
    IN  IF new_outages # <<>> /\ rejected
        THEN Outcome(table, Append(selected, Call("insert", new_outages, "", FALSE)), TRUE)
        ELSE IF new_outages # <<>>
        THEN UpdateLoop(update_outages, 1, table \o new_outages,
                        Append(selected, Call("insert", new_outages, "", TRUE)), fault)
        ELSE UpdateLoop(update_outages, 1, table, selected, fault)

NoRun == [n |-> 0, op |-> "none", outages |-> <<>>, before |-> <<>>,
          fault |-> NoFault, error |-> FALSE]

\* what scrape_luma_outages may return in the k-th run, for k up to MaxOutageRuns
OutageScrapes ==
    UNION { { [k |-> k, outages |-> scrape_luma_outages(page, clk)] :
                page \in Pages, clk \in OutageClocks(k) } :
            k \in 1..MaxOutageRuns }

\* main: scrape, report; the call of store_outages_in_supabase is commented out
OutagesMain ==
    \E scrape \in OutageScrapes :
        /\ scrape.k = outage_pass.n + 1
        /\ outage_pass' = [NoRun EXCEPT !.n = scrape.k, !.op = "main",
                                        !.outages = scrape.outages,
                                        !.before = luma_outages]
        /\ store_calls' = <<>>
        /\ UNCHANGED <<luma_outages, id_unique, status_vars, grid_vars>>

\* a call of store_outages_in_supabase with the outages of a scrape
StoreOutages ==
    \E scrape \in OutageScrapes, fault \in StoreFaults :
        /\ scrape.k = outage_pass.n + 1
        /\ \E out \in {store_outages_in_supabase(scrape.outages, luma_outages,
                                                 id_unique, fault)} :
              /\ luma_outages' = out.table
              /\ store_calls' = out.calls
              /\ outage_pass' = [n |-> scrape.k, op |-> "store",
                                 outages |-> scrape.outages, before |-> luma_outages,
                                 fault |-> fault, error |-> out.error]
        /\ UNCHANGED <<id_unique, status_vars, grid_vars>>

OutageNext == OutagesMain \/ StoreOutages

\* the tables a first run may find: rows of earlier scrapes
InitOutageTables ==
    { <<>>,
      scrape_luma_outages(Page(<<RowA1>>), Clock(OutageNow(0), 0)),
      scrape_luma_outages(Page(<<RowA1, RowB>>), Clock(OutageNow(0), 1)) }

OutageInit ==
    /\ luma_outages \in InitOutageTables
    /\ id_unique \in BOOLEAN
    /\ store_calls = <<>>
    /\ outage_pass = NoRun

-----------------------------------------------------------------------------
(* scrape_luma_grid_status.py *)

HttpOk == 200

Div(data_value, max_text) == [data_value |-> data_value, max_text |-> max_text]

\* a target div of the page: absent (None), or present with a data-value
\* attribute or without, and with a span.max-text or without
DivOptions ==
    {None} \cup
    { Div(dv, mx) : dv \in {None, StrV("2500"), StrV("n/a")},
                    mx \in {None, StrV("\r\n 3100\r\n")} }

\* div#peak-Forecast: absent (None), or the texts of its p.peak-text elements
PeakOptions ==
    { None,
      StrV(<<>>),
      StrV(<<"2900 MW">>),
      StrV(<<"2900MW", " 650 MW ">>),
      StrV(<<"1,234 MW", "987">>),
      StrV(<<"987", "", "5">>) }

Document(total, next, reserve, peak) ==
    [total_Generation |-> total, next_Hour_Forecast |-> next, reserve |-> reserve,
     peak_Forecast |-> peak]

Documents ==
    { Document(t, n, r, p) : t \in DivOptions, n \in DivOptions, r \in DivOptions,
                             p \in PeakOptions }

Response(status_code, doc) == [status_code |-> status_code, doc |-> doc]

Responses == { Response(c, d) : c \in {HttpOk, 403}, d \in Documents }

\* datetime.now(puerto_rico_tz).isoformat()
GridTimes == {"2025-03-05T11:00:00-04:00", "2025-03-05T11:05:00-04:00"}

\* get_text(strip=True) of an element holding one text
get_text_strip(text) == str_strip(text)

\* one turn of the loop over target_ids without the else branch
TargetFieldsNoElse(results, key, div) ==
    IF ~IsNone(div)
    THEN LET current == IF ~IsNone(div.data_value) THEN int(div.data_value.str)
                        ELSE None
             max_val == IF ~IsNone(div.max_text)
                        THEN int(get_text_strip(div.max_text.str)) ELSE None
         IN  IF IsRaise(current) THEN current
             ELSE IF IsRaise(max_val) THEN max_val
             ELSE DictSet(DictSet(results, key, current), key \o "_max", max_val)
    ELSE results

\* one turn of the loop over target_ids: results with key and key_max set, or
\* Raise(ValueError) when int() rejects a text
TargetFields(results, key, div) ==
    IF ~IsNone(div)
    THEN LET current == IF ~IsNone(div.data_value) THEN int(div.data_value.str)
                        ELSE None
             max_val == IF ~IsNone(div.max_text)
                        THEN int(get_text_strip(div.max_text.str)) ELSE None
         IN  IF IsRaise(current) THEN current
             ELSE IF IsRaise(max_val) THEN max_val
             ELSE DictSet(DictSet(results, key, current), key \o "_max", max_val)
    ELSE DictSet(DictSet(results, key, None), key \o "_max", None)

\* int(p.get_text(strip=True).replace("MW", ""))
PeakValue(text) == int(str_replace(get_text_strip(text), "MW", ""))

\* the "peak-Forecast" section
PeakFields(results, peak_div) ==
    IF ~IsNone(peak_div)
    THEN LET peak_values == peak_div.str IN
         IF Len(peak_values) >= 2
         THEN LET demand == PeakValue(peak_values[1])
                  reserve == PeakValue(peak_values[2])
              IN  IF IsRaise(demand) THEN demand
                  ELSE IF IsRaise(reserve) THEN reserve
                  ELSE DictSet(DictSet(results, "peak_demand_forecast", demand),
                               "peak_reserve_forecast", reserve)
         ELSE DictSet(DictSet(results, "peak_demand_forecast", None),
                      "peak_reserve_forecast", None)
    ELSE DictSet(DictSet(results, "peak_demand_forecast", None),
                 "peak_reserve_forecast", None)

EmptyDict == [x \in {} |-> None]

\* scrape_luma: the results dict, or Raise(...)
scrape_luma(response, now) ==
    IF response.status_code # HttpOk THEN Raise("Exception")
    ELSE
    LET soup == response.doc
        r1 == TargetFields(EmptyDict, "current_demand", soup.total_Generation)
        r2 == IF IsRaise(r1) THEN r1
              ELSE TargetFields(r1, "next_hour_demand_forecast", soup.next_Hour_Forecast)
        r3 == IF IsRaise(r2) THEN r2
              ELSE TargetFields(r2, "current_reserve", soup.reserve)
        r4 == IF IsRaise(r3) THEN r3 ELSE PeakFields(r3, soup.peak_Forecast)
    IN  IF IsRaise(r4) THEN r4 ELSE DictSet(r4, "timestamp", StrV(now))

NotFetched == [fetched |-> FALSE]

GridScrape ==
    \E response \in Responses, now \in GridTimes :
        /\ grid_doc = NotFetched
        /\ grid_doc' = response
        /\ grid_result' = scrape_luma(response, now)
        /\ UNCHANGED <<status_vars, outage_vars>>

GridNext == GridScrape

GridInit ==
    /\ grid_doc = NotFetched
    /\ grid_result = NotFetched

-----------------------------------------------------------------------------
(* Specifications: one per scraper; the scrapers share no state *)

StatusIdle ==
    /\ outage_snapshot = {}
    /\ clock = 1
    /\ snapshot_files = {}
    /\ latest_json = None
    /\ status_pass = NoPass

OutageIdle ==
    /\ luma_outages = <<>>
    /\ id_unique = TRUE
    /\ store_calls = <<>>
    /\ outage_pass = NoRun

InitStatus == StatusInit /\ OutageIdle /\ GridInit
InitOutages == OutageInit /\ StatusIdle /\ GridInit
InitGrid == GridInit /\ StatusIdle /\ OutageIdle

SpecStatus == InitStatus /\ [][StatusNext]_vars
SpecOutages == InitOutages /\ [][OutageNext]_vars
SpecGrid == InitGrid /\ [][GridNext]_vars

-----------------------------------------------------------------------------
(* Claims about scrape_service_status.py, checked under SpecStatus *)

\* this step is a pass of main in which is_newer_last_update was called
DifferCalledInStep ==
    /\ status_pass'.n = status_pass.n + 1
    /\ status_pass'.differ # "not called"

Parses(marker) == ~IsRaise(strptime_12h(marker))

\* minutes since the start of year 0 of a calendar in which every month has 31 days
MinuteOf(marker) ==
    LET t == strptime_12h(marker)
    IN  (((t.y * 12 + t.mo) * 31 + t.d) * 24 + t.h) * 60 + t.mi

\* the stored row with the greatest insertion timestamp
RowInsertedLast(table) ==
    CHOOSE r \in table : \A q \in table \ {r} : q.timestamp < r.timestamp

\* C1: whenever the marker of the latest stored row does not parse, the differ
\* answers "newer" without raising, whatever the newly scraped marker is,
\* unparseable and null markers included.
C1_UnparseableStoredMeansNewer ==
    [][(/\ DifferCalledInStep
        /\ status_pass'.fault # "select"
        /\ outage_snapshot # {}
        /\ ~Parses(RowInsertedLast(outage_snapshot).last_update))
       => status_pass'.differ = "newer"]_vars

\* C2: for a well-formed new marker the differ answers "newer" on an empty
\* table, and otherwise, when the marker of the row inserted last parses,
\* answers "newer" exactly when the new marker is strictly later than that
\* marker; no other stored row has a say.
C2_DifferComparesWithLatestRow ==
    [][(/\ DifferCalledInStep
        /\ status_pass'.fault # "select"
        /\ Parses(status_pass'.data.last_update))
       => IF outage_snapshot = {}
          THEN status_pass'.differ = "newer"
          ELSE LET stored == RowInsertedLast(outage_snapshot).last_update IN
               Parses(stored) =>
                  status_pass'.differ =
                     IF MinuteOf(status_pass'.data.last_update) > MinuteOf(stored)
                     THEN "newer" ELSE "not newer"]_vars

\* the differ answered "not newer" against a table of two rows whose older row
\* carries a later marker than the new one
C2_Witness ==
    /\ status_pass.differ = "not newer"
    /\ \E r, q \in outage_snapshot :
          /\ r.timestamp < q.timestamp
          /\ Parses(r.last_update) /\ Parses(q.last_update)
          /\ MinuteOf(r.last_update) > MinuteOf(status_pass.data.last_update)
          /\ MinuteOf(q.last_update) = MinuteOf(status_pass.data.last_update)

AllParse(table) == \A r \in table : Parses(r.last_update)

\* markers strictly increasing in the order of the insertion timestamps
MarkersIncreasing(table) ==
    \A r, q \in table :
        r.timestamp < q.timestamp => MinuteOf(r.last_update) < MinuteOf(q.last_update)

\* C10: from a table whose markers all parse, a pass changes the table only by
\* inserting its own snapshot after the differ answered "newer", and then the
\* new marker parses and is strictly later than that of the row inserted last;
\* so markers that were increasing in insertion order stay increasing.
C10_InsertOnlyWhenNewer ==
    [][(AllParse(outage_snapshot) /\ outage_snapshot' # outage_snapshot)
       => /\ status_pass'.differ = "newer"
          /\ \E row \in outage_snapshot' \ outage_snapshot :
                /\ outage_snapshot' = outage_snapshot \cup {row}
                /\ row.last_update = status_pass'.data.last_update
                /\ row.timestamp = status_pass'.data.timestamp
                /\ \A q \in outage_snapshot : q.timestamp < row.timestamp
                /\ Parses(row.last_update)
                /\ outage_snapshot # {} =>
                      MinuteOf(row.last_update)
                          > MinuteOf(RowInsertedLast(outage_snapshot).last_update)
          /\ MarkersIncreasing(outage_snapshot) => MarkersIncreasing(outage_snapshot')]_vars

\* a pass has stored its snapshot on top of two or more stored rows, and the
\* markers of the table are increasing in insertion order
C10_Witness ==
    /\ status_pass.saved
    /\ Cardinality(outage_snapshot) >= 3
    /\ AllParse(outage_snapshot)
    /\ MarkersIncreasing(outage_snapshot)

-----------------------------------------------------------------------------
(* Claims about scrape_notable_outages.py, checked under SpecOutages *)

\* the last run was a call of store_outages_in_supabase that got the stored ids
StoreRan ==
    /\ outage_pass.op = "store"
    /\ outage_pass.outages # <<>>
    /\ outage_pass.fault # Fault("select", 0)

CallsOf(op) == SelectSeq(store_calls, LAMBDA c : c.op = op)

\* the records a run has handed to the store for insertion, and for update
InsertedRecords == IF CallsOf("insert") = <<>> THEN <<>> ELSE CallsOf("insert")[1].rows
UpdatedRecords == [k \in 1..Len(CallsOf("update")) |-> CallsOf("update")[k].rows[1]]

\* the batch records whose id is not stored / is stored when the run starts
BatchNotStored ==
    SelectSeq(outage_pass.outages, LAMBDA o : o.id \notin RowIds(outage_pass.before))
BatchStored ==
    SelectSeq(outage_pass.outages, LAMBDA o : o.id \in RowIds(outage_pass.before))

IsPrefix(p, q) == Len(p) <= Len(q) /\ p = SubSeq(q, 1, Len(p))

\* C3: the run splits the batch by the stored ids: one batched insert of
\* exactly the records whose id is not stored, issued before any update; one
\* update per record whose id is stored, keyed by that id; the two sets are
\* disjoint and cover the batch; a stored row whose id is not in the batch is
\* unchanged, and no stored row is deleted.
C3_UpsertPartition ==
    StoreRan =>
      /\ Len(CallsOf("insert")) <= 1
      /\ (CallsOf("insert") # <<>>) = (BatchNotStored # <<>>)
      /\ InsertedRecords = BatchNotStored
      /\ IsPrefix(UpdatedRecords, BatchStored)
      /\ ~outage_pass.error => UpdatedRecords = BatchStored
      /\ \A i \in 1..Len(outage_pass.outages) :
            LET o == outage_pass.outages[i] IN
            (\E j \in 1..Len(BatchNotStored) : BatchNotStored[j] = o)
                # (\E j \in 1..Len(BatchStored) : BatchStored[j] = o)
      /\ Len(BatchNotStored) + Len(BatchStored) = Len(outage_pass.outages)
      /\ \A i, j \in 1..Len(store_calls) :
            (store_calls[i].op = "insert" /\ store_calls[j].op = "update") => i < j
      /\ \A i \in 1..Len(store_calls) :
            store_calls[i].op = "update" =>
               store_calls[i].key = store_calls[i].rows[1].id
      /\ Len(luma_outages) >= Len(outage_pass.before)
      /\ \A i \in 1..Len(outage_pass.before) :
            LET old == outage_pass.before[i] IN
            IF \E k \in 1..Len(CallsOf("update")) :
                  CallsOf("update")[k].ok /\ CallsOf("update")[k].key = old.id
            THEN luma_outages[i].id = old.id
            ELSE luma_outages[i] = old

\* stored {A, B}, batch {A, C}: C was inserted, A updated, B is as it was
C3_Witness ==
    /\ StoreRan
    /\ ~outage_pass.error
    /\ Len(InsertedRecords) = 1
    /\ Len(UpdatedRecords) = 1
    /\ \E i \in 1..Len(outage_pass.before) :
          /\ outage_pass.before[i].id \notin RowIds(outage_pass.outages)
          /\ luma_outages[i] = outage_pass.before[i]
    /\ \E i \in 1..Len(outage_pass.before) :
          /\ outage_pass.before[i].id \in RowIds(outage_pass.outages)
          /\ luma_outages[i] # outage_pass.before[i]

\* C4: a rejected batched insert ends the run with no update attempted, and a
\* rejected update is logged while every other update of the update-set is
\* still attempted.
C4_StoreFailurePolicy ==
    StoreRan =>
      /\ (\E i \in 1..Len(store_calls) :
             store_calls[i].op = "insert" /\ ~store_calls[i].ok)
           => CallsOf("update") = <<>>
      /\ (\E i \in 1..Len(store_calls) :
             store_calls[i].op = "update" /\ ~store_calls[i].ok)
           => /\ outage_pass.error
              /\ Len(CallsOf("update")) = Len(BatchStored)

\* two batches are one batch scraped twice: they differ at most in scraped_at
SameBatch(b1, b2) ==
    /\ Len(b1) = Len(b2)
    /\ \A i \in 1..Len(b1) : [b1[i] EXCEPT !.scraped_at = ""] = [b2[i] EXCEPT !.scraped_at = ""]

\* table is what one run without failure makes of table0 and batch: every
\* batch id once, with the content of a batch record of that id, the other
\* rows of table0 as they were, and nothing else
Converged(table, table0, batch) ==
    /\ \A id \in RowIds(batch) :
          /\ Cardinality({i \in 1..Len(table) : table[i].id = id}) = 1
          /\ \A i \in 1..Len(table) :
                table[i].id = id => \E j \in 1..Len(batch) : batch[j] = table[i]
    /\ Len(table) >= Len(table0)
    /\ \A i \in 1..Len(table0) :
          table0[i].id \notin RowIds(batch) => table[i] = table0[i]
    /\ RowIds(table) = RowIds(table0) \cup RowIds(batch)

\* C5: a run without store failure that follows a run of the same batch (which
\* may have been cut short by a store failure) leaves the table converged on
\* the table the earlier run started from, whether or not the batch repeats an
\* id; and if the earlier run was without failure too, this run inserts nothing.
C5_UpsertConverges ==
    [][(/\ outage_pass.op = "store"
        /\ outage_pass'.n = outage_pass.n + 1
        /\ outage_pass'.op = "store"
        /\ outage_pass'.fault = NoFault
        /\ outage_pass'.outages # <<>>
        /\ SameBatch(outage_pass.outages, outage_pass'.outages))
       => /\ Converged(luma_outages', outage_pass.before, outage_pass'.outages)
          /\ outage_pass.fault = NoFault =>
                \A i \in 1..Len(store_calls') : store_calls'[i].op # "insert"]_vars

\* C7: a pass of main that extracted outages ends with every extracted id stored
C7_MainStoresOutages ==
    (outage_pass.op = "main" /\ outage_pass.outages # <<>>)
        => RowIds(outage_pass.outages) \subseteq RowIds(luma_outages)

\* the outage records in sight: those of the last scrape and those stored
EntriesInSight ==
    {outage_pass.outages[i] : i \in 1..Len(outage_pass.outages)}
        \cup {luma_outages[i] : i \in 1..Len(luma_outages)}

Triple(e) == <<e.municipality, e.sector, e.outage_reported_text>>

DifferInOneComponent(e1, e2) ==
    Cardinality({k \in 1..3 : Triple(e1)[k] # Triple(e2)[k]}) = 1

\* the string that is hashed for a record
HashedText(e) == e.municipality \o "_" \o e.sector \o "_" \o e.outage_reported_text

\* the rows of 7 cells or more that a page may show
TableRows ==
    UNION { {page.rows[i] : i \in {j \in 1..Len(page.rows) : Len(page.rows[j]) >= 7}} :
            page \in {pg \in Pages : ~IsRaise(pg)} }

\* the MD5 digest of the string hashed for each of those rows, worked out
\* once from the stripped cells
DigestOf ==
    [t \in { str_strip(r[1]) \o "_" \o str_strip(r[2]) \o "_" \o str_strip(r[3]) :
               r \in TableRows } |-> md5_hexdigest(t)]

\* C9: the id is the MD5 digest of municipality_sector_reported-text: records
\* with one triple have one id whatever their other fields hold, and for
\* records whose triples differ in exactly one component the hashed strings
\* differ and the ids differ.
C9_IdIsFunctionOfTriple ==
    \A e1 \in EntriesInSight :
        /\ e1.id = DigestOf[HashedText(e1)]
        /\ \A e2 \in EntriesInSight :
              /\ Triple(e1) = Triple(e2) => e1.id = e2.id
              /\ DifferInOneComponent(e1, e2) =>
                    /\ HashedText(e1) # HashedText(e2)
                    /\ e1.id # e2.id

\* in sight: one outage seen twice with different status and scrape time, and
\* three more that differ from it in the sector, the time, the municipality alone
C9_Witness ==
    \E e1, e2, e3, e4, e5 \in EntriesInSight :
        /\ Triple(e1) = Triple(e2)
        /\ e1.current_status # e2.current_status /\ e1.scraped_at # e2.scraped_at
        /\ e1.restoration_estimated_timestamp # e2.restoration_estimated_timestamp
        /\ DifferInOneComponent(e1, e3) /\ e1.sector # e3.sector
        /\ DifferInOneComponent(e1, e4)
        /\ e1.outage_reported_text # e4.outage_reported_text
        /\ DifferInOneComponent(e1, e5) /\ e1.municipality # e5.municipality

-----------------------------------------------------------------------------
(* Claims about scrape_luma_grid_status.py, checked under SpecGrid *)

Fetched == grid_doc # NotFetched

TargetKeys == {"current_demand", "next_hour_demand_forecast", "current_reserve"}

NumericKeys ==
    TargetKeys \cup {k \o "_max" : k \in TargetKeys}
        \cup {"peak_demand_forecast", "peak_reserve_forecast"}

\* the div of the document that a key is read from
TargetDiv(doc, key) ==
    CASE key = "current_demand" -> doc.total_Generation
      [] key = "next_hour_demand_forecast" -> doc.next_Hour_Forecast
      [] key = "current_reserve" -> doc.reserve

\* a text made of digits alone, once the whitespace around it is taken off
IsDigitsText(text) ==
    LET t == str_strip(text) IN
    t # "" /\ \A i \in 1..Len(t) : Ch(t, i) \in Digits

\* every text the document does hold is a plain number (peak texts may end in MW)
PresentTextsNumeric(doc) ==
    /\ \A key \in TargetKeys :
          LET div == TargetDiv(doc, key) IN
          ~IsNone(div) =>
             /\ ~IsNone(div.data_value) => IsDigitsText(div.data_value.str)
             /\ ~IsNone(div.max_text) => IsDigitsText(div.max_text.str)
    /\ (~IsNone(doc.peak_Forecast) /\ Len(doc.peak_Forecast.str) >= 2) =>
          \A i \in 1..2 :
             IsDigitsText(str_replace(doc.peak_Forecast.str[i], "MW", ""))

\* C6: a record scrape_luma returns holds all eight numeric keys, each an
\* integer or null; a missing target div gives null for its value and its
\* _max; and no absent element makes scrape_luma raise: on a page that was
\* fetched, it raises only over a text that is present and is not a number.
C6_EightNumericKeys ==
    Fetched =>
      /\ ~IsRaise(grid_result) =>
            /\ NumericKeys \subseteq DOMAIN grid_result
            /\ \A k \in NumericKeys : IsInt(grid_result[k]) \/ IsNone(grid_result[k])
            /\ \A k \in TargetKeys :
                  IsNone(TargetDiv(grid_doc.doc, k)) =>
                     IsNone(grid_result[k]) /\ IsNone(grid_result[k \o "_max"])
      /\ (grid_doc.status_code = HttpOk /\ PresentTextsNumeric(grid_doc.doc))
            => ~IsRaise(grid_result)

\* a record came back for a page that lacks a target div, a data-value
\* attribute, a max span and the second peak paragraph
C6_Witness ==
    /\ Fetched
    /\ ~IsRaise(grid_result)
    /\ IsNone(grid_doc.doc.total_Generation)
    /\ ~IsNone(grid_doc.doc.next_Hour_Forecast)
    /\ IsNone(grid_doc.doc.next_Hour_Forecast.data_value)
    /\ ~IsNone(grid_doc.doc.reserve)
    /\ IsNone(grid_doc.doc.reserve.max_text)
    /\ IsInt(grid_result["current_reserve"])
    /\ ~IsNone(grid_doc.doc.peak_Forecast)
    /\ Len(grid_doc.doc.peak_Forecast.str) = 1

\* the normalizer of the specification: the unit suffix and the thousands
\* separators are taken off, an empty text is null, the rest is parsed
Normalized(text) ==
    LET t == str_strip(str_replace(str_replace(text, "MW", ""), ",", "")) IN
    IF t = "" THEN None ELSE int(t)

\* C8: every conversion of numeric text takes off the MW suffix and the
\* thousands separators before it parses, and gives null for an empty text:
\* the two peak-forecast values of the grid record, and the region columns of
\* a stored status row, are the normalized cell texts.
C8_UnitStrippingNormalizer ==
    /\ (/\ Fetched
        /\ grid_doc.status_code = HttpOk
        /\ \A k \in TargetKeys : IsNone(TargetDiv(grid_doc.doc, k))
        /\ ~IsNone(grid_doc.doc.peak_Forecast)
        /\ Len(grid_doc.doc.peak_Forecast.str) >= 2)
       => /\ ~IsRaise(grid_result)
          /\ grid_result["peak_demand_forecast"]
                = Normalized(grid_doc.doc.peak_Forecast.str[1])
          /\ grid_result["peak_reserve_forecast"]
                = Normalized(grid_doc.doc.peak_Forecast.str[2])
    /\ (status_pass.differ = "newer" /\ status_pass.fault = "none")
       => /\ status_pass.saved
          /\ \A i \in 1..Len(status_pass.data.data) :
                LET region == status_pass.data.data[i]
                    suffix == str_replace(str_lower(region["Region"]), " ", "_")
                IN  \E row \in outage_snapshot :
                       /\ row["timestamp"] = status_pass.data.timestamp
                       /\ IntV(row["total_customers_" \o suffix])
                             = Normalized(region["Total customers"])
                       /\ IntV(row["out_of_service_" \o suffix])
                             = Normalized(region["Out of Service"])
                       /\ IntV(row["planned_upgrades_" \o suffix])
                             = Normalized(region["Planned Upgrades"])

-----------------------------------------------------------------------------
(* Side files of the status scraper *)

\* the last pass of main got data from scrape_luma_outages
PassWithData == status_pass.n > 0 /\ ~IsNone(status_pass.data)

\* C11: after every status scrape pass whose extraction returned data, the
\* snapshot file of that pass exists and latest.json holds that pass's data,
\* whatever the differ answered and whether or not the recency check or the
\* store insert failed.
C11_SideFilesAlwaysWritten ==
    PassWithData =>
        /\ status_pass.data \in snapshot_files
        /\ latest_json = status_pass.data

\* The part of C11 that the code keeps: the snapshot file is written in every
\* pass with data, and latest.json in every such pass that did not raise.
C11_SideFilesUnlessRaised ==
    PassWithData =>
        /\ status_pass.data \in snapshot_files
        /\ (~status_pass.raised => latest_json = status_pass.data)

====
